---- MODULE Spec2Model ----
(***************************************************************************)
(* A model of astrbot/core/provider/sources/azure_tts_source.py: the Azure *)
(* text-to-speech adapter with its two backends, NativeAzureTTS (the       *)
(* vendor SDK) and OTTSClient (a relay reached over HTTP with a signed     *)
(* URL), and the factory create_provider that chooses between them.        *)
(*                                                                         *)
(* Strings are sequences of lexemes: single characters, except that a JSON *)
(* string literal, a JSON number and the JSON words are one lexeme each.   *)
(* Python exceptions are their class names; ExcParent is the class tree.   *)
(*                                                                         *)
(* Five specifications share the module, one per part of the program:      *)
(*   SpecConfig  create_provider and the two constructors                  *)
(*   SpecSsml    NativeAzureTTS._build_ssml                                *)
(*   SpecSign    OTTSClient._generate_signed_url                           *)
(*   SpecSync    concurrent OTTSClient._get_sync_time calls on one adapter *)
(*   SpecAudio   one get_audio call of either backend, with its file       *)
(***************************************************************************)
EXTENDS Integers, Sequences, FiniteSets, TLC

VARIABLES
    cfgKey,      \* provider_config["azure_tts_subscription_key"], or Absent
    cfgRegion,   \* provider_config["azure_tts_region"], or Absent
    cfgOut       \* what create_provider did: nothing yet, an adapter, a raise

cfgVars == <<cfgKey, cfgRegion, cfgOut>>

VARIABLES
    ssmlConfig,  \* the azure_tts_* voice settings of provider_config
    ssmlText,    \* the text handed to get_audio
    ssmlDoc      \* the document _build_ssml returned, <<>> before the call

ssmlVars == <<ssmlConfig, ssmlText, ssmlDoc>>

VARIABLES
    otts,        \* the OTTSClient: skey, api_url, auth_time_url, time_offset
    clock,       \* int(time.time()), the local clock
    signSync,    \* what the last _get_sync_time call returned
    signed_url   \* what the last _generate_signed_url call returned

signVars == <<otts, clock, signSync, signed_url>>

VARIABLES
    syncPc,      \* where each call is in _get_sync_time
    syncResp,    \* the auth-time answer each call got
    syncLocal,   \* each call's local_time (line 152)
    syncRet,     \* the timestamp _get_sync_time returned to each call
    lastStored   \* the offset the most recent successful sync stored, 0 if none

syncVars == <<syncPc, syncResp, syncLocal, syncRet, lastStored>>

VARIABLES
    impl,        \* AzureTTSProvider.impl: the backend create_provider built
    platform,    \* the host: posix or windows
    apc,         \* where the get_audio call is
    file,        \* the output file at file_path: absent, partial or full
    synthesizer, \* get_audio's synthesizer: None, open or disposed
    vresult,     \* the result of speak_ssml
    http_status, \* the status of the relay's response, 0 before it
    raised,      \* the exception in flight
    primary,     \* the exception the try block raised last
    pending,     \* what get_audio is about to do once finally has run
    outcome,     \* how get_audio ended: a returned path or an exception
    loopI,       \* _cleanup: the passes of its loop made
    cleanupFrom, \* _cleanup: its caller
    unlinkLog,   \* how each path.unlink() of this call ended, in order
    failure      \* what went wrong in this call, "" if nothing did

audioVars == <<impl, platform, apc, file, synthesizer, vresult, http_status,
               raised, primary, pending, outcome, loopI, cleanupFrom,
               unlinkLog, failure>>

vars == <<cfgVars, ssmlVars, signVars, syncVars, audioVars>>

\* what the actions of each specification leave alone
notConfig == <<ssmlVars, signVars, syncVars, audioVars>>
notSsml == <<cfgVars, signVars, syncVars, audioVars>>
notSign == <<cfgVars, ssmlVars, syncVars, audioVars>>
notSync == <<cfgVars, ssmlVars, signSync, signed_url, audioVars>>
notAudio == <<cfgVars, ssmlVars, syncVars>>

(***************************************************************************)
(* Python: the exception classes the module raises, meets and catches.     *)
(***************************************************************************)
ExcParent ==
    [ Exception        |-> "BaseException",
      RuntimeError     |-> "Exception",
      ValueError       |-> "Exception",
      JSONDecodeError  |-> "ValueError",
      LookupError      |-> "Exception",
      KeyError         |-> "LookupError",
      AttributeError   |-> "Exception",
      TypeError        |-> "Exception",
      NameError        |-> "Exception",
      UnboundLocalError |-> "NameError",
      OSError          |-> "Exception",
      PermissionError  |-> "OSError",
      RequestException |-> "OSError",
      HTTPError        |-> "RequestException",
      ConnectionError  |-> "RequestException",
      Timeout          |-> "RequestException" ]

RECURSIVE IsInstance(_, _)
IsInstance(exc, cls) ==
    IF exc = cls THEN TRUE
    ELSE IF exc \in DOMAIN ExcParent THEN IsInstance(ExcParent[exc], cls)
    ELSE FALSE

(***************************************************************************)
(* Python str operations, on sequences of lexemes.                         *)
(***************************************************************************)
StartsWith(s, prefix) ==
    /\ Len(s) >= Len(prefix)
    /\ SubSeq(s, 1, Len(prefix)) = prefix

EndsWith(s, suffix) ==
    /\ Len(s) >= Len(suffix)
    /\ SubSeq(s, Len(s) - Len(suffix) + 1, Len(s)) = suffix

\* s[lo:-1] for 0 <= lo
SliceToLast(s, lo) == SubSeq(s, lo + 1, Len(s) - 1)

RECURSIVE RStrip(_, _)
RStrip(s, ch) ==
    IF Len(s) > 0 /\ s[Len(s)] = ch THEN RStrip(SubSeq(s, 1, Len(s) - 1), ch)
    ELSE s

\* the least index at or after `from` where sep starts in s, 0 if none
RECURSIVE Find(_, _, _)
Find(s, sep, from) ==
    IF from + Len(sep) - 1 > Len(s) THEN 0
    ELSE IF SubSeq(s, from, from + Len(sep) - 1) = sep THEN from
    ELSE Find(s, sep, from + 1)

\* s.split(sep, 1)[-1]
SplitOnceLast(s, sep) ==
    LET at == Find(s, sep, 1)
    IN  IF at = 0 THEN s ELSE SubSeq(s, at + Len(sep), Len(s))

(***************************************************************************)
(* json.loads, on lexemes. A value is kept as its type and, for an object, *)
(* its members in document order as <<key, type of the value>> pairs.      *)
(***************************************************************************)
Unquote ==
    "\"TTS_SKEY\"" :> "TTS_SKEY" @@ "\"TTS_URL\"" :> "TTS_URL"
      @@ "\"TTS_AUTH_TIME\"" :> "TTS_AUTH_TIME" @@ "\"x\"" :> "x"
      @@ "\"v\"" :> "v"

JsonStrLits == DOMAIN Unquote
JsonNumLits == {"1"}
JsonNullLits == {"null"}
JsonBoolLits == {"true", "false"}

JsonFail == [ok |-> FALSE, next |-> 0, type |-> "", members |-> <<>>]
JsonOk(next, type, members) ==
    [ok |-> TRUE, next |-> next, type |-> type, members |-> members]

RECURSIVE ParseValue(_, _), ParseElements(_, _), ParseMembers(_, _, _)
ParseValue(t, i) ==
    IF i > Len(t) THEN JsonFail
    ELSE IF t[i] \in JsonStrLits THEN JsonOk(i + 1, "str", <<>>)
    ELSE IF t[i] \in JsonNumLits THEN JsonOk(i + 1, "int", <<>>)
    ELSE IF t[i] \in JsonNullLits THEN JsonOk(i + 1, "NoneType", <<>>)
    ELSE IF t[i] \in JsonBoolLits THEN JsonOk(i + 1, "bool", <<>>)
    ELSE IF t[i] = "[" THEN
        IF i + 1 <= Len(t) /\ t[i + 1] = "]" THEN JsonOk(i + 2, "list", <<>>)
        ELSE ParseElements(t, i + 1)
    ELSE IF t[i] = "{" THEN
        IF i + 1 <= Len(t) /\ t[i + 1] = "}" THEN JsonOk(i + 2, "dict", <<>>)
        ELSE ParseMembers(t, i + 1, <<>>)
    ELSE JsonFail

ParseElements(t, i) ==
    LET v == ParseValue(t, i)
    IN  IF ~v.ok \/ v.next > Len(t) THEN JsonFail
        ELSE IF t[v.next] = "," THEN ParseElements(t, v.next + 1)
        ELSE IF t[v.next] = "]" THEN JsonOk(v.next + 1, "list", <<>>)
        ELSE JsonFail

ParseMembers(t, i, acc) ==
    IF i + 1 > Len(t) \/ t[i] \notin JsonStrLits \/ t[i + 1] # ":" THEN JsonFail
    ELSE LET v == ParseValue(t, i + 2)
             got == Append(acc, <<Unquote[t[i]], v.type>>)
         IN  IF ~v.ok \/ v.next > Len(t) THEN JsonFail
             ELSE IF t[v.next] = "," THEN ParseMembers(t, v.next + 1, got)
             ELSE IF t[v.next] = "}" THEN JsonOk(v.next + 1, "dict", got)
             ELSE JsonFail

\* json.loads(t): the value, or ok = FALSE for json.JSONDecodeError
json_loads(t) ==
    LET v == ParseValue(t, 1)
    IN  IF v.ok /\ v.next = Len(t) + 1 THEN v ELSE JsonFail

\* dict.keys() of a parsed object
DictKeys(members) == {members[i][1] : i \in DOMAIN members}

\* type(d[key]) of a parsed object: the last member of that name
DictType(members, key) ==
    LET at == {i \in DOMAIN members : members[i][1] = key}
    IN  members[CHOOSE i \in at : \A j \in at : j <= i][2]

(***************************************************************************)
(* Construction: create_provider, NativeAzureTTS.__init__,                 *)
(* OTTSClient.__init__.                                                    *)
(***************************************************************************)
HexLen == 32

HexDigits ==
    {"0", "1", "2", "3", "4", "5", "6", "7", "8", "9",
     "a", "b", "c", "d", "e", "f", "A", "B", "C", "D", "E", "F"}

\* re.fullmatch(r"^[a-fA-F0-9]{32}$", s)
FullMatchHexKey(s) ==
    /\ Len(s) = HexLen
    /\ \A i \in 1..Len(s) : s[i] \in HexDigits

OtherPrefix == <<"o", "t", "h", "e", "r", "[">>
OtherSuffix == <<"]">>

required_keys == {"TTS_SKEY", "TTS_URL", "TTS_AUTH_TIME"}

NoOutcome == [kind |-> "none", exc |-> "", msg |-> "", missing |-> {}]
Built(class) == [kind |-> class, exc |-> "", msg |-> "", missing |-> {}]
Raised(exc, msg, missing) ==
    [kind |-> "raise", exc |-> exc, msg |-> msg, missing |-> missing]

\* a provider_config entry: present with its value, or not in the mapping
Present(v) == [present |-> TRUE, s |-> v]
Missing == [present |-> FALSE, s |-> <<>>]

NativeAzureTTS_init(key, region) ==
    IF ~key.present THEN Raised("KeyError", "azure_tts_subscription_key", {})
    ELSE IF ~FullMatchHexKey(key.s)
      THEN Raised("ValueError", "invalid subscription key format", {})
    ELSE IF ~region.present THEN Raised("KeyError", "azure_tts_region", {})
    ELSE Built("NativeAzureTTS")

\* provider_config already merged with the parsed payload
OTTSClient_init(members) ==
    IF DictType(members, "TTS_URL") # "str"
      THEN Raised("AttributeError", "rstrip", {})
    ELSE Built("OTTSClient")

create_provider(key, region) ==
    LET sub_key == IF key.present THEN key.s ELSE <<>>
    IN  IF StartsWith(sub_key, OtherPrefix) /\ EndsWith(sub_key, OtherSuffix)
        THEN LET custom_config == json_loads(SliceToLast(sub_key, 6))
             IN  IF ~custom_config.ok
                   THEN Raised("ValueError", "OTTS config malformed", {})
                 ELSE IF custom_config.type # "dict"
                   THEN Raised("AttributeError", "keys", {})
                 ELSE LET missing ==
                              required_keys \ DictKeys(custom_config.members)
                      IN  IF missing # {}
                            THEN Raised("ValueError", "missing config keys",
                                        missing)
                          ELSE OTTSClient_init(custom_config.members)
        ELSE NativeAzureTTS_init(key, region)

(***************************************************************************)
(* The configurations create_provider is tried on.                         *)
(***************************************************************************)
KeyChars == {"a", "F", "9", "g", "G", "-"}
KeyLens == {0, 1, HexLen - 1, HexLen, HexLen + 1}

\* n characters, all `fill` except an `odd` one at position at (0: nowhere)
KeyOfLen(n, at, odd, fill) == [i \in 1..n |-> IF i = at THEN odd ELSE fill]

PlainKeys ==
    {KeyOfLen(n, at, odd, fill) :
        n \in KeyLens, at \in {0, 1, HexLen}, odd \in KeyChars, fill \in KeyChars}

KeyOrder == <<"\"TTS_SKEY\"", "\"TTS_URL\"", "\"TTS_AUTH_TIME\"", "\"x\"">>

\* the members named by `on` (indices of KeyOrder), each with value lexeme v
RECURSIVE MemberLexemes(_, _, _)
MemberLexemes(on, v, i) ==
    IF i > Len(KeyOrder) THEN <<>>
    ELSE LET rest == MemberLexemes(on, v, i + 1)
         IN  IF i \notin on THEN rest
             ELSE <<KeyOrder[i], ":", v>>
                    \o (IF rest = <<>> THEN <<>> ELSE <<",">> \o rest)

ObjectPayloads ==
    {<<"{">> \o MemberLexemes(on, v, 1) \o <<"}">> :
        on \in SUBSET (1..Len(KeyOrder)), v \in {"\"v\"", "1", "null"}}

OtherPayloads ==
    { <<>>, <<"1">>, <<"null">>, <<"true">>, <<"\"x\"">>,
      <<"[", "]">>, <<"[", "1", "]">>, <<"[", "1", ",", "\"v\"", "]">>,
      <<"[", "{", "}", "]">>, <<"{">>, <<"}">>, <<"1", "1">>,
      <<"{", "\"x\"", ":", "{", "\"TTS_URL\"", ":", "1", "}", "}">>,
      <<"{", "\"TTS_URL\"", ":", "1", ",", "\"TTS_URL\"", ":", "\"v\"", ",",
        "\"TTS_SKEY\"", ":", "\"v\"", ",", "\"TTS_AUTH_TIME\"", ":", "\"v\"", "}">> }

\* a payload, whole or cut short by its last lexeme
Payloads ==
    ObjectPayloads \cup OtherPayloads
      \cup {SubSeq(p, 1, Len(p) - 1) : p \in ObjectPayloads}

SentinelKeys ==
    {OtherPrefix \o p \o OtherSuffix : p \in Payloads}
      \cup {OtherPrefix \o p : p \in OtherPayloads}
      \cup {SubSeq(OtherPrefix, 1, 5) \o p \o OtherSuffix : p \in OtherPayloads}

ConfigInit ==
    /\ cfgKey \in {Missing} \cup {Present(k) : k \in PlainKeys \cup SentinelKeys}
    /\ cfgRegion \in {Missing, Present(<<"e", "a", "s", "t", "u", "s">>)}
    /\ cfgOut = NoOutcome

\* AzureTTSProvider.__init__: self.impl = create_provider(...)
CreateProvider ==
    /\ cfgOut.kind = "none"
    /\ cfgOut' = create_provider(cfgKey, cfgRegion)
    /\ UNCHANGED <<cfgKey, cfgRegion>>
    /\ UNCHANGED notConfig

ConfigNext == CreateProvider

(***************************************************************************)
(* Claims about construction.                                              *)
(***************************************************************************)
KeyIsHex32 ==
    /\ cfgKey.present
    /\ Len(cfgKey.s) = 32
    /\ \A i \in 1..Len(cfgKey.s) : cfgKey.s[i] \in HexDigits

KeyIsSentinel ==
    /\ cfgKey.present
    /\ StartsWith(cfgKey.s, OtherPrefix)
    /\ EndsWith(cfgKey.s, OtherSuffix)

\* C3: with a region configured, construction succeeds (the native backend)
\* for every subscription key of exactly 32 hexadecimal characters, and
\* raises ValueError for every other key that is not of the other[...] form,
\* the empty string and an absent key included.
C3_KeyValidation ==
    cfgOut.kind # "none" =>
        /\ (KeyIsHex32 /\ cfgRegion.present) => cfgOut.kind = "NativeAzureTTS"
        /\ (~KeyIsHex32 /\ ~KeyIsSentinel) =>
              /\ cfgOut.kind = "raise"
              /\ IsInstance(cfgOut.exc, "ValueError")

SentinelPayload == json_loads(SliceToLast(cfgKey.s, 6))

PayloadIsRelayConfig ==
    /\ SentinelPayload.ok
    /\ SentinelPayload.type = "dict"
    /\ required_keys \subseteq DictKeys(SentinelPayload.members)

\* C4: for a key other[<payload>], the relay backend is built only if the
\* payload is a JSON object holding TTS_SKEY, TTS_URL and TTS_AUTH_TIME; every
\* other payload raises ValueError, naming exactly the absent keys when the
\* payload is an object, and reporting a malformed payload when it is not
\* valid JSON.
C4_RelayPayload ==
    (cfgOut.kind # "none" /\ KeyIsSentinel) =>
        /\ cfgOut.kind = "OTTSClient" => PayloadIsRelayConfig
        /\ ~PayloadIsRelayConfig =>
              /\ cfgOut.kind = "raise"
              /\ IsInstance(cfgOut.exc, "ValueError")
              /\ ~SentinelPayload.ok => cfgOut.msg = "OTTS config malformed"
              /\ (SentinelPayload.ok /\ SentinelPayload.type = "dict") =>
                    /\ cfgOut.msg = "missing config keys"
                    /\ cfgOut.missing =
                         required_keys \ DictKeys(SentinelPayload.members)

(***************************************************************************)
(* NativeAzureTTS._build_ssml: the f-string, as the concatenation of its   *)
(* literal parts and the interpolated values. NL is a line break with its  *)
(* indentation.                                                            *)
(***************************************************************************)
NL == "\n"

\* BaseAzureTTS._load_config: config.get(name, default)
ConfigGet(entry, default) == IF entry.present THEN entry.s ELSE default

DefaultVoice == <<"zh-CN-YunxiaNeural">>
DefaultStyle == <<"cheerful">>
DefaultRole == <<"Boy">>
DefaultRate == <<"1.0">>
DefaultVolume == <<"100">>

_load_config(config) ==
    [ voice  |-> ConfigGet(config.azure_tts_voice, DefaultVoice),
      style  |-> ConfigGet(config.azure_tts_style, DefaultStyle),
      role   |-> ConfigGet(config.azure_tts_role, DefaultRole),
      rate   |-> ConfigGet(config.azure_tts_rate, DefaultRate),
      volume |-> ConfigGet(config.azure_tts_volume, DefaultVolume) ]

_build_ssml(self, text) ==
    <<"<", "speak", " ", "version", "=", "'", "1.0", "'", " ",
      "xmlns", "=", "'", "http://www.w3.org/2001/10/synthesis", "'", NL,
      "xmlns:mstts", "=", "'", "http://www.w3.org/2001/mstts", "'", " ",
      "xml:lang", "=", "'", "zh-CN", "'", ">", NL>>
    \o <<"<", "voice", " ", "name", "=", "'">> \o self.voice \o <<"'", ">", NL>>
    \o <<"<", "mstts:express-as", " ", "style", "=", "'">> \o self.style
    \o <<"'", " ", "role", "=", "'">> \o self.role \o <<"'", ">", NL>>
    \o <<"<", "prosody", " ", "rate", "=", "'">> \o self.rate
    \o <<"'", " ", "volume", "=", "'">> \o self.volume \o <<"'", ">", NL>>
    \o text \o <<NL>>
    \o <<"<", "/", "prosody", ">", NL>>
    \o <<"<", "/", "mstts:express-as", ">", NL>>
    \o <<"<", "/", "voice", ">", NL>>
    \o <<"<", "/", "speak", ">">>

(***************************************************************************)
(* The texts and voice settings _build_ssml is tried on.                   *)
(***************************************************************************)
MaxTextLen == 3

TextLexemes == {"hello", "<", "&", ">", "/", "prosody"}

RECURSIVE SeqsUpTo(_, _)
SeqsUpTo(S, n) ==
    IF n = 0 THEN {<<>>}
    ELSE LET shorter == SeqsUpTo(S, n - 1)
         IN  shorter \cup {Append(t, x) : t \in shorter, x \in S}

SsmlInit ==
    /\ ssmlConfig \in
         [ azure_tts_voice  : {Missing, Present(<<"en-US-JennyNeural">>)},
           azure_tts_style  : {Missing, Present(<<"sad">>)},
           azure_tts_role   : {Missing},
           azure_tts_rate   : {Missing},
           azure_tts_volume : {Missing, Present(<<"50">>)} ]
    /\ ssmlText \in SeqsUpTo(TextLexemes, MaxTextLen)
    /\ ssmlDoc = <<>>

\* get_audio, line 71: ssml = self._build_ssml(text)
BuildSsml ==
    /\ ssmlDoc = <<>>
    /\ ssmlDoc' = _build_ssml(_load_config(ssmlConfig), ssmlText)
    /\ UNCHANGED <<ssmlConfig, ssmlText>>
    /\ UNCHANGED notSsml

SsmlNext == BuildSsml

(***************************************************************************)
(* Claims about the SSML document: read as XML.                            *)
(***************************************************************************)
\* the tags of a document in order: <<"open", name>> or <<"close", name>>
RECURSIVE TagsFrom(_, _)
TagsFrom(doc, i) ==
    IF i > Len(doc) THEN <<>>
    ELSE IF doc[i] # "<" THEN TagsFrom(doc, i + 1)
    ELSE IF i + 2 <= Len(doc) /\ doc[i + 1] = "/"
      THEN <<<<"close", doc[i + 2]>>>> \o TagsFrom(doc, i + 1)
    ELSE IF i + 1 <= Len(doc)
      THEN <<<<"open", doc[i + 1]>>>> \o TagsFrom(doc, i + 1)
    ELSE <<<<"open", "">>>>

ExpectedTags ==
    << <<"open", "speak">>, <<"open", "voice">>,
       <<"open", "mstts:express-as">>, <<"open", "prosody">>,
       <<"close", "prosody">>, <<"close", "mstts:express-as">>,
       <<"close", "voice">>, <<"close", "speak">> >>

\* the start tag of element `name`, from its "<" to its ">"
StartTag(doc, name) ==
    LET at == Find(doc, <<"<", name>>, 1)
        end == Find(doc, <<">">>, at)
    IN  IF at = 0 \/ end = 0 THEN <<>> ELSE SubSeq(doc, at, end)

\* the character data of prosody: after its start tag, up to the next "<"
ProsodyBody(doc) ==
    LET at == Find(doc, <<"<", "prosody">>, 1)
        gt == IF at = 0 THEN 0 ELSE Find(doc, <<">">>, at)
        lt == IF gt = 0 THEN 0 ELSE Find(doc, <<"<">>, gt)
    IN  IF lt = 0 THEN <<>> ELSE SubSeq(doc, gt + 1, lt - 1)

\* character data with its references resolved and the layout dropped
RECURSIVE CharData(_)
CharData(body) ==
    IF body = <<>> THEN <<>>
    ELSE LET c == Head(body)
             rest == CharData(Tail(body))
         IN  IF c = NL THEN rest
             ELSE IF c = "&lt;" THEN <<"<">> \o rest
             ELSE IF c = "&amp;" THEN <<"&">> \o rest
             ELSE IF c = "&gt;" THEN <<">">> \o rest
             ELSE <<c>> \o rest

\* C7: the document is speak > voice(name) > mstts:express-as(style, role) >
\* prosody(rate, volume) with the configured values as attributes and the
\* text as the body of prosody, "<" and "&" of the text escaped, so that the
\* text adds or closes no element.
C7_SsmlStructure ==
    ssmlDoc # <<>> =>
        LET self == _load_config(ssmlConfig)
        IN  /\ TagsFrom(ssmlDoc, 1) = ExpectedTags
            /\ StartTag(ssmlDoc, "voice") =
                 <<"<", "voice", " ", "name", "=", "'">> \o self.voice
                   \o <<"'", ">">>
            /\ StartTag(ssmlDoc, "mstts:express-as") =
                 <<"<", "mstts:express-as", " ", "style", "=", "'">>
                   \o self.style \o <<"'", " ", "role", "=", "'">>
                   \o self.role \o <<"'", ">">>
            /\ StartTag(ssmlDoc, "prosody") =
                 <<"<", "prosody", " ", "rate", "=", "'">> \o self.rate
                   \o <<"'", " ", "volume", "=", "'">> \o self.volume
                   \o <<"'", ">">>
            /\ \A i \in DOMAIN ProsodyBody(ssmlDoc) :
                   ProsodyBody(ssmlDoc)[i] \notin {"<", "&"}
            /\ CharData(ProsodyBody(ssmlDoc)) = ssmlText

(***************************************************************************)
(* OTTSClient: the relay adapter, its time sync and its signed URL.        *)
(***************************************************************************)
Digits == <<"0", "1", "2", "3", "4", "5", "6", "7", "8", "9">>

\* str(n) of an int
RECURSIVE NatToStr(_)
NatToStr(n) ==
    IF n < 10 THEN <<Digits[n + 1]>>
    ELSE NatToStr(n \div 10) \o <<Digits[(n % 10) + 1]>>

IntToStr(n) == IF n < 0 THEN <<"-">> \o NatToStr(-n) ELSE NatToStr(n)

\* hashlib.md5(msg.encode()).hexdigest(), as an ideal hash: the digest of a
\* message is written md5( message ), so two digests are equal exactly when
\* their messages are.
Md5Hex(msg) == <<"md5(">> \o msg \o <<")">>

\* OTTSClient.__init__: the fields of the adapter
OTTSClient_fields(TTS_SKEY, TTS_URL, TTS_AUTH_TIME) ==
    [ skey          |-> TTS_SKEY,
      api_url       |-> RStrip(TTS_URL, "/"),
      auth_time_url |-> TTS_AUTH_TIME,
      time_offset   |-> 0 ]

NonceLen == 10

\* what session.get(auth_time_url).json()["timestamp"] comes to: an exception
\* of class exc, or (exc = "") a JSON value of some type; value is the number
\* when the type is int.
SyncResponse(exc, type, value) == [exc |-> exc, type |-> type, value |-> value]

\* the exception the try block of _get_sync_time ends with, "" if none:
\* the request's or the lookup's, or the TypeError of str - int
SyncTryRaises(resp) ==
    IF resp.exc # "" THEN resp.exc
    ELSE IF resp.type # "int" THEN "TypeError"
    ELSE ""

\* the class _get_sync_time's except clause names
SyncHandler == "Exception"

SyncStoredOffset(server_time, local_time) == server_time - local_time

SyncFallbackNoOffset(local_time, time_offset) == local_time
SyncFallback(local_time, time_offset) == local_time + time_offset

\* _get_sync_time from the arrival of the response on: local_time is
\* int(time.time()) as read then, nonce is what _generate_nonce draws.
\* raised is the exception that leaves the method, "" when it returns.
_get_sync_time(self, resp, local_time, nonce) ==
    LET err == SyncTryRaises(resp)
    IN  IF err = ""
          THEN [ raised      |-> "",
                 timestamp   |-> resp.value,
                 nonce       |-> nonce,
                 time_offset |-> SyncStoredOffset(resp.value, local_time) ]
        ELSE IF IsInstance(err, SyncHandler)
          THEN [ raised      |-> "",
                 timestamp   |-> SyncFallback(local_time, self.time_offset),
                 nonce       |-> nonce,
                 time_offset |-> self.time_offset ]
        ELSE [ raised      |-> err,
               timestamp   |-> 0,
               nonce       |-> <<>>,
               time_offset |-> self.time_offset ]

SignPath(api_url) ==
    <<"/">> \o SplitOnceLast(SplitOnceLast(api_url, <<"/", "/">>), <<"/">>)

\* _generate_signed_url after its _get_sync_time call returned sync
_generate_signed_url(self, sync) ==
    LET tail == IntToStr(sync.timestamp) \o <<"-">> \o sync.nonce
                  \o <<"-", "0", "-">>
        signature == Md5Hex(SignPath(self.api_url) \o <<"-">> \o tail
                              \o self.skey)
    IN  self.api_url \o <<"?", "s", "i", "g", "n", "=">> \o tail \o signature

(***************************************************************************)
(* The relay configurations, clocks and auth-time answers tried.           *)
(***************************************************************************)
MaxClock == 2
MaxServerTime == 3
NumCalls == 2

Calls == 1..NumCalls

UrlHost == <<"s", ":", "/", "/", "h">>

ApiUrls ==
    {UrlHost \o p :
        p \in { <<>>, <<"/">>, <<"/", "a">>, <<"/", "a", "/">>,
                <<"/", "a", "/", "b">>, <<"/", "a", "/", "b", "/">> }}

SigningKeys == {<<"k">>, <<"k", "-", "2">>}

AuthTimeUrl == UrlHost \o <<"/", "t">>

Nonces == {[i \in 1..NonceLen |-> c] : c \in {"a", "7"}}

SyncResponses ==
    {SyncResponse("", "int", v) : v \in 0..MaxServerTime}
      \cup {SyncResponse("", "str", 0)}
      \cup {SyncResponse(e, "", 0) :
              e \in {"ConnectionError", "Timeout", "JSONDecodeError",
                     "KeyError", "TypeError"}}

NoSync == [raised |-> "", timestamp |-> 0, nonce |-> <<>>, time_offset |-> 0]

(***************************************************************************)
(* SpecSign: _generate_signed_url, call after call on one adapter.         *)
(***************************************************************************)
SignInit ==
    /\ otts \in {OTTSClient_fields(k, u, AuthTimeUrl) :
                   k \in SigningKeys, u \in ApiUrls}
    /\ clock \in 0..MaxClock
    /\ signSync = NoSync
    /\ signed_url = <<>>

GenerateSignedUrl ==
    /\ \E resp \in SyncResponses, nonce \in Nonces :
          LET sync == _get_sync_time(otts, resp, clock, nonce)
          IN  /\ sync.raised = ""
              /\ signSync' = sync
              /\ otts' = [otts EXCEPT !.time_offset = sync.time_offset]
              /\ signed_url' = _generate_signed_url(otts, sync)
    /\ UNCHANGED clock
    /\ UNCHANGED notSign

\* time.time() moves on
Tick ==
    /\ clock < MaxClock
    /\ clock' = clock + 1
    /\ UNCHANGED <<otts, signSync, signed_url>>
    /\ UNCHANGED notSign

SignNext == GenerateSignedUrl \/ Tick

(***************************************************************************)
(* Claims about the signed URL.                                            *)
(***************************************************************************)
\* the path component of a URL scheme://authority/path (RFC 3986): from the
\* first "/" after the authority on, empty when there is none
UrlPath(url) ==
    LET sep == Find(url, <<":", "/", "/">>, 1)
        rest == IF sep = 0 THEN url ELSE SubSeq(url, sep + 3, Len(url))
        slash == Find(rest, <<"/">>, 1)
    IN  IF slash = 0 THEN <<>> ELSE SubSeq(rest, slash, Len(rest))

\* C6: the signed URL is api_url ?sign= t-n-0-MD5(path-t-n-0-skey) with path
\* the URL path component of the API base URL, also when that URL has no
\* path after its host, and t, n the values its one _get_sync_time call
\* returned.
C6_SignedUrl ==
    signed_url # <<>> =>
        LET t == IntToStr(signSync.timestamp)
            n == signSync.nonce
            message == UrlPath(otts.api_url) \o <<"-">> \o t \o <<"-">> \o n
                         \o <<"-", "0", "-">> \o otts.skey
        IN  signed_url =
              otts.api_url \o <<"?", "s", "i", "g", "n", "=">> \o t \o <<"-">>
                \o n \o <<"-", "0", "-">> \o Md5Hex(message)

(***************************************************************************)
(* SpecSync: get_audio calls on one relay adapter, run by threads that     *)
(* interleave between the steps of _get_sync_time: the auth-time request   *)
(* (lines 150-151), the read of the local clock (line 152), the store of   *)
(* the offset with the return (lines 153-154), and the except clause       *)
(* (lines 155-157). A call that left _get_sync_time goes on and ends; its  *)
(* thread may then call again.                                             *)
(***************************************************************************)
\* the auth-time answers the threads get
SyncAnswers ==
    {SyncResponse("", "int", v) : v \in {0, MaxServerTime}}
      \cup {SyncResponse("", "str", 0)}
      \cup {SyncResponse(e, "", 0) : e \in {"ConnectionError", "KeyError"}}

NoAnswer == SyncResponse("", "", 0)

SyncInit ==
    /\ otts = OTTSClient_fields(<<"k">>, UrlHost \o <<"/", "a">>, AuthTimeUrl)
    /\ clock = 0
    /\ signSync = NoSync
    /\ signed_url = <<>>
    /\ syncPc = [c \in Calls |-> "idle"]
    /\ syncResp = [c \in Calls |-> NoAnswer]
    /\ syncLocal = [c \in Calls |-> 0]
    /\ syncRet = [c \in Calls |-> 0]
    /\ lastStored = 0

\* get_audio is called; session.get(self.auth_time_url, timeout=3) ends:
\* response.json()["timestamp"] is a value or an exception
SyncGet(c) ==
    /\ syncPc[c] = "idle"
    /\ \E r \in SyncAnswers :
          /\ syncResp' = [syncResp EXCEPT ![c] = r]
          /\ syncPc' = [syncPc EXCEPT ![c] =
                          IF r.exc = "" THEN "read_clock" ELSE "except"]
    /\ UNCHANGED <<otts, clock, syncLocal, syncRet, lastStored>>
    /\ UNCHANGED notSync

\* local_time = int(time.time()); the subtraction of line 153 raises
\* TypeError when the timestamp is no number
SyncReadClock(c) ==
    /\ syncPc[c] = "read_clock"
    /\ IF SyncTryRaises(syncResp[c]) = ""
         THEN /\ syncLocal' = [syncLocal EXCEPT ![c] = clock]
              /\ syncPc' = [syncPc EXCEPT ![c] = "store"]
         ELSE /\ syncPc' = [syncPc EXCEPT ![c] = "except"]
              /\ UNCHANGED syncLocal
    /\ UNCHANGED <<otts, clock, syncResp, syncRet, lastStored>>
    /\ UNCHANGED notSync

\* self.time_offset = server_time - local_time; return server_time, nonce
SyncStore(c) ==
    /\ syncPc[c] = "store"
    /\ \E nonce \in Nonces :
          LET r == _get_sync_time(otts, syncResp[c], syncLocal[c], nonce)
          IN  /\ syncRet' = [syncRet EXCEPT ![c] = r.timestamp]
              /\ otts' = [otts EXCEPT !.time_offset = r.time_offset]
    /\ lastStored' = syncResp[c].value - syncLocal[c]
    /\ syncPc' = [syncPc EXCEPT ![c] = "synced"]
    /\ UNCHANGED <<clock, syncResp, syncLocal>>
    /\ UNCHANGED notSync

\* the exception meets the except clause: caught, the fallback is returned;
\* not caught, it leaves _get_sync_time and get_audio
SyncExcept(c) ==
    /\ syncPc[c] = "except"
    /\ \E nonce \in Nonces :
          LET r == _get_sync_time(otts, syncResp[c], clock, nonce)
          IN  /\ syncRet' = [syncRet EXCEPT ![c] = r.timestamp]
              /\ syncPc' = [syncPc EXCEPT ![c] =
                              IF r.raised = "" THEN "fell_back" ELSE "raised"]
    /\ UNCHANGED <<otts, clock, syncResp, syncLocal, lastStored>>
    /\ UNCHANGED notSync

\* the call goes on with its timestamp and ends
SyncDone(c) ==
    /\ syncPc[c] \in {"synced", "fell_back"}
    /\ syncPc' = [syncPc EXCEPT ![c] = "idle"]
    /\ syncResp' = [syncResp EXCEPT ![c] = NoAnswer]
    /\ syncLocal' = [syncLocal EXCEPT ![c] = 0]
    /\ syncRet' = [syncRet EXCEPT ![c] = 0]
    /\ UNCHANGED <<otts, clock, lastStored>>
    /\ UNCHANGED notSync

\* time.time() moves on
SyncTick ==
    /\ clock < MaxClock
    /\ clock' = clock + 1
    /\ UNCHANGED <<otts, syncPc, syncResp, syncLocal, syncRet, lastStored>>
    /\ UNCHANGED notSync

SyncNext ==
    \/ \E c \in Calls : SyncGet(c)
    \/ \E c \in Calls : SyncReadClock(c)
    \/ \E c \in Calls : SyncStore(c)
    \/ \E c \in Calls : SyncExcept(c)
    \/ \E c \in Calls : SyncDone(c)
    \/ SyncTick

(***************************************************************************)
(* Claims about the time sync.                                             *)
(***************************************************************************)
C9_Inv ==
    /\ \A c \in Calls : syncPc[c] # "raised"
    /\ \A c \in Calls :
          syncPc[c] = "synced" => syncRet[c] = syncResp[c].value
    /\ otts.time_offset = lastStored

C9_Step ==
    /\ \A c \in Calls :
          /\ (syncPc[c] = "store" /\ syncPc'[c] # "store") =>
                otts'.time_offset = syncResp[c].value - syncLocal[c]
          /\ (syncPc[c] = "except" /\ syncPc'[c] # "except") =>
                /\ syncPc'[c] = "fell_back"
                /\ syncRet'[c] = clock + lastStored
                /\ otts'.time_offset = otts.time_offset
    /\ otts'.skey = otts.skey
    /\ otts'.api_url = otts.api_url
    /\ otts'.auth_time_url = otts.auth_time_url

\* C9: under every interleaving of calls on one relay adapter no exception
\* leaves _get_sync_time; a successful sync returns the server timestamp
\* and stores server time - local time; a failed sync returns the local
\* clock plus the offset stored by the most recent successful sync of any
\* call (0 if none); time_offset is the only field a call writes, and it is
\* 0 or the offset the most recent successful sync stored.
C9_TimeSync == [](C9_Inv) /\ [][C9_Step]_vars

\* a sync failed and fell back on the nonzero offset another call stored
C9_Witness ==
    \E c, d \in Calls :
        /\ c # d
        /\ syncPc[c] = "fell_back"
        /\ syncPc[d] = "synced"
        /\ otts.time_offset # 0
        /\ syncRet[c] = clock + (syncResp[d].value - syncLocal[d])

(***************************************************************************)
(* SpecAudio: one AzureTTSProvider.get_audio call, which is the chosen     *)
(* backend's get_audio, with the output file at file_path: absent, partial *)
(* (created, not fully written) or full. The vendor SDK, the relay and the *)
(* file system answer as they may.                                         *)
(***************************************************************************)
CleanupTries == 3

NoExc == [class |-> "", msg |-> <<>>]
Exc(class, msg) == [class |-> class, msg |-> msg]

NoResult == [reason |-> "", cancel_reason |-> "", error_details |-> ""]

\* result.reason, and for Canceled result.cancellation_details
VendorResults ==
    { [reason |-> "SynthesizingAudioCompleted", cancel_reason |-> "",
       error_details |-> ""] }
      \cup { [reason |-> "Canceled", cancel_reason |-> "Error",
              error_details |-> d] : d \in {"", "401 unauthorized"} }
      \cup { [reason |-> "Canceled", cancel_reason |-> r,
              error_details |-> ""] : r \in {"EndOfStream", "CancelledByUser"} }
      \cup { [reason |-> r, cancel_reason |-> "", error_details |-> ""] :
              r \in {"SynthesizingAudioStarted", "NoMatch"} }

HttpStatuses == {200, 204, 304, 404, 500}

\* Response.raise_for_status raises HTTPError for 4xx and 5xx
RaisesForStatus(code) == 400 <= code /\ code < 600

\* _handle_error, lines 97-102: error_msg, bound only for a Canceled result
HandleErrorMsg(r) ==
    IF r.reason = "Canceled"
      THEN [ bound |-> TRUE,
             msg   |-> <<"synthesis canceled: ", r.cancel_reason>>
                         \o (IF r.cancel_reason = "Error"
                               THEN <<", error details: ", r.error_details>>
                               ELSE <<>>) ]
      ELSE [bound |-> FALSE, msg |-> <<>>]

\* _handle_error, line 104: raise RuntimeError(error_msg)
HandleErrorRaise(r) ==
    IF HandleErrorMsg(r).bound
      THEN Exc("RuntimeError", HandleErrorMsg(r).msg)
      ELSE Exc("UnboundLocalError", <<"error_msg">>)

RelayUnavailable == Exc("RuntimeError", <<"speech service unavailable">>)

\* Path.unlink on a file that exists: done, or the exception it raises. An
\* open synthesizer holds the output file, which Windows then refuses to
\* delete; otherwise another process may hold it for a while.
UnlinkOutcomes ==
    IF platform = "windows" /\ synthesizer = "open"
      THEN {"PermissionError"}
      ELSE {"ok", "PermissionError", "OSError"}

NoPending == [kind |-> "none", exc |-> NoExc]

AudioInit ==
    /\ impl \in {"NativeAzureTTS", "OTTSClient"}
    /\ platform \in {"posix", "windows"}
    /\ apc = "idle"
    /\ file = "absent"
    /\ synthesizer = "None"
    /\ vresult = NoResult
    /\ http_status = 0
    /\ raised = NoExc
    /\ primary = NoExc
    /\ pending = NoPending
    /\ outcome = NoPending
    /\ loopI = 0
    /\ cleanupFrom = ""
    /\ unlinkLog = <<>>
    /\ failure = ""
    /\ otts = OTTSClient_fields(<<"k">>, UrlHost \o <<"/", "a">>, AuthTimeUrl)
    /\ clock \in 0..MaxClock
    /\ signSync = NoSync
    /\ signed_url = <<>>

\* an exception is raised inside the try block
Throw(e, why) ==
    /\ raised' = e
    /\ primary' = e
    /\ failure' = why
    /\ apc' = "except"

\* NativeAzureTTS.get_audio, lines 64-70: the synthesizer, bound to the file
NativeStart ==
    /\ apc = "idle" /\ impl = "NativeAzureTTS"
    /\ \/ /\ synthesizer' = "open"
          /\ file' \in {"absent", "partial"}
          /\ apc' = "speak"
          /\ UNCHANGED <<raised, primary, failure>>
       \/ /\ Throw(Exc("RuntimeError", <<"SpeechSynthesizer">>), "sdk_exception")
          /\ UNCHANGED <<synthesizer, file>>
    /\ UNCHANGED <<impl, platform, vresult, http_status, pending, outcome,
                   loopI, cleanupFrom, unlinkLog, signVars>>
    /\ UNCHANGED notAudio

\* lines 71-72: result = synthesizer.speak_ssml(ssml). A completed synthesis
\* has written the file, unless the vendor reports completion without it.
NativeSpeak ==
    /\ apc = "speak"
    /\ \/ \E r \in VendorResults :
             /\ vresult' = r
             /\ file' \in IF r.reason = "SynthesizingAudioCompleted"
                            THEN {"full", "absent"}
                            ELSE {file, "partial"}
             /\ apc' = "check"
             /\ UNCHANGED <<raised, primary, failure>>
       \/ /\ Throw(Exc("RuntimeError", <<"speak_ssml">>), "sdk_exception")
          /\ file' \in {file, "partial"}
          /\ UNCHANGED vresult
    /\ UNCHANGED <<impl, platform, synthesizer, http_status, pending, outcome,
                   loopI, cleanupFrom, unlinkLog, signVars>>
    /\ UNCHANGED notAudio

\* lines 73-75, and _handle_error's lines 97-103 up to its _cleanup call
NativeCheck ==
    /\ apc = "check"
    /\ IF vresult.reason = "SynthesizingAudioCompleted"
         THEN /\ pending' = [kind |-> "return", exc |-> NoExc]
              /\ apc' = "finally"
              /\ UNCHANGED <<failure, cleanupFrom, loopI>>
         ELSE /\ failure' = IF vresult.reason = "Canceled"
                              THEN "canceled" ELSE "not_completed"
              /\ cleanupFrom' = "_handle_error"
              /\ loopI' = 0
              /\ apc' = "cleanup"
              /\ UNCHANGED pending
    /\ UNCHANGED <<impl, platform, file, synthesizer, vresult, http_status,
                   raised, primary, outcome, unlinkLog, signVars>>
    /\ UNCHANGED notAudio

\* where _cleanup returns to
AfterCleanup ==
    CASE cleanupFrom = "_handle_error" -> "handle_error_raise"
      [] cleanupFrom = "native_except" -> "reraise"
      [] cleanupFrom = "otts_except" -> "otts_raise"

\* _cleanup, one pass of its loop with the file not there: path.exists() is
\* false, nothing is tried and the loop goes on
CleanupNothing ==
    /\ apc = "cleanup" /\ loopI < CleanupTries /\ file = "absent"
    /\ loopI' = loopI + 1
    /\ UNCHANGED <<impl, platform, apc, file, synthesizer, vresult,
                   http_status, raised, primary, pending, outcome,
                   cleanupFrom, unlinkLog, failure, signVars>>
    /\ UNCHANGED notAudio

\* _cleanup, one pass with the file there: path.unlink(), then return, or
\* the next pass after PermissionError, or break after another exception
CleanupUnlink ==
    /\ apc = "cleanup" /\ loopI < CleanupTries /\ file # "absent"
    /\ \E o \in UnlinkOutcomes :
          /\ unlinkLog' = Append(unlinkLog, o)
          /\ file' = IF o = "ok" THEN "absent" ELSE file
          /\ IF o = "PermissionError"
               THEN loopI' = loopI + 1 /\ apc' = apc
               ELSE loopI' = loopI /\ apc' = AfterCleanup
    /\ UNCHANGED <<impl, platform, synthesizer, vresult, http_status, raised,
                   primary, pending, outcome, cleanupFrom, failure, signVars>>
    /\ UNCHANGED notAudio

\* _cleanup: range(3) is used up
CleanupGiveUp ==
    /\ apc = "cleanup" /\ loopI = CleanupTries
    /\ apc' = AfterCleanup
    /\ UNCHANGED <<impl, platform, file, synthesizer, vresult, http_status,
                   raised, primary, pending, outcome, loopI, cleanupFrom,
                   unlinkLog, failure, signVars>>
    /\ UNCHANGED notAudio

\* _handle_error, line 104: raise RuntimeError(error_msg)
NativeHandleErrorRaise ==
    /\ apc = "handle_error_raise"
    /\ raised' = HandleErrorRaise(vresult)
    /\ primary' = HandleErrorRaise(vresult)
    /\ apc' = "except"
    /\ UNCHANGED <<impl, platform, file, synthesizer, vresult, http_status,
                   pending, outcome, loopI, cleanupFrom, unlinkLog, failure,
                   signVars>>
    /\ UNCHANGED notAudio

\* lines 76-77: except Exception as e: self._cleanup(file_path)
NativeExcept ==
    /\ apc = "except" /\ impl = "NativeAzureTTS"
    /\ IF IsInstance(raised.class, "Exception")
         THEN /\ cleanupFrom' = "native_except"
              /\ loopI' = 0
              /\ apc' = "cleanup"
              /\ UNCHANGED pending
         ELSE /\ pending' = [kind |-> "raise", exc |-> raised]
              /\ apc' = "finally"
              /\ UNCHANGED <<cleanupFrom, loopI>>
    /\ UNCHANGED <<impl, platform, file, synthesizer, vresult, http_status,
                   raised, primary, outcome, unlinkLog, failure, signVars>>
    /\ UNCHANGED notAudio

\* lines 78-79: the error is logged and raised again
NativeReraise ==
    /\ apc = "reraise"
    /\ pending' = [kind |-> "raise", exc |-> raised]
    /\ apc' = "finally"
    /\ UNCHANGED <<impl, platform, file, synthesizer, vresult, http_status,
                   raised, primary, outcome, loopI, cleanupFrom, unlinkLog,
                   failure, signVars>>
    /\ UNCHANGED notAudio

\* lines 80-82: finally: synthesizer.dispose(); then the call is over
NativeFinally ==
    /\ apc = "finally"
    /\ synthesizer' = IF synthesizer = "open" THEN "disposed" ELSE synthesizer
    /\ outcome' = pending
    /\ apc' = "over"
    /\ UNCHANGED <<impl, platform, file, vresult, http_status, raised,
                   primary, pending, loopI, cleanupFrom, unlinkLog, failure,
                   signVars>>
    /\ UNCHANGED notAudio

\* OTTSClient.get_audio, lines 116-118: signed_url = _generate_signed_url()
OttsSign ==
    /\ apc = "idle" /\ impl = "OTTSClient"
    /\ \E resp \in SyncResponses, nonce \in Nonces :
          LET sync == _get_sync_time(otts, resp, clock, nonce)
          IN  /\ signSync' = sync
              /\ otts' = [otts EXCEPT !.time_offset = sync.time_offset]
              /\ IF sync.raised = ""
                   THEN /\ signed_url' = _generate_signed_url(otts, sync)
                        /\ apc' = "post"
                        /\ UNCHANGED <<raised, primary, failure>>
                   ELSE /\ Throw(Exc(sync.raised, <<>>), "time_sync")
                        /\ UNCHANGED signed_url
    /\ UNCHANGED <<impl, platform, file, synthesizer, vresult, http_status,
                   pending, outcome, loopI, cleanupFrom, unlinkLog, clock>>
    /\ UNCHANGED notAudio

\* lines 119-131: session.post(...) and response.raise_for_status()
OttsPost ==
    /\ apc = "post"
    /\ \/ \E code \in HttpStatuses :
             /\ http_status' = code
             /\ IF RaisesForStatus(code)
                  THEN Throw(Exc("HTTPError", <<>>), "http_error")
                  ELSE /\ apc' = "write"
                       /\ UNCHANGED <<raised, primary, failure>>
       \/ \E e \in {"ConnectionError", "Timeout"} :
             /\ Throw(Exc(e, <<>>), "transport")
             /\ UNCHANGED http_status
    /\ UNCHANGED <<impl, platform, file, synthesizer, vresult, pending,
                   outcome, loopI, cleanupFrom, unlinkLog, signVars>>
    /\ UNCHANGED notAudio

\* lines 132-134: the body is written to the file and the path returned;
\* open() or f.write() may raise OSError
OttsWrite ==
    /\ apc = "write"
    /\ \/ /\ file' = "full"
          /\ outcome' = [kind |-> "return", exc |-> NoExc]
          /\ apc' = "over"
          /\ UNCHANGED <<raised, primary, failure>>
       \/ /\ file' \in {"absent", "partial"}
          /\ Throw(Exc("OSError", <<>>), "write_error")
          /\ UNCHANGED outcome
    /\ UNCHANGED <<impl, platform, synthesizer, vresult, http_status, pending,
                   loopI, cleanupFrom, unlinkLog, signVars>>
    /\ UNCHANGED notAudio

\* lines 135-136: except requests.exceptions.RequestException as e:
\* self._cleanup(file_path); any other exception leaves get_audio
OttsExcept ==
    /\ apc = "except" /\ impl = "OTTSClient"
    /\ IF IsInstance(raised.class, "RequestException")
         THEN /\ cleanupFrom' = "otts_except"
              /\ loopI' = 0
              /\ apc' = "cleanup"
              /\ UNCHANGED outcome
         ELSE /\ outcome' = [kind |-> "raise", exc |-> raised]
              /\ apc' = "over"
              /\ UNCHANGED <<cleanupFrom, loopI>>
    /\ UNCHANGED <<impl, platform, file, synthesizer, vresult, http_status,
                   raised, primary, pending, unlinkLog, failure, signVars>>
    /\ UNCHANGED notAudio

\* lines 137-138: raise RuntimeError(...) from e
OttsRaise ==
    /\ apc = "otts_raise"
    /\ outcome' = [kind |-> "raise", exc |-> RelayUnavailable]
    /\ apc' = "over"
    /\ UNCHANGED <<impl, platform, file, synthesizer, vresult, http_status,
                   raised, primary, pending, loopI, cleanupFrom, unlinkLog,
                   failure, signVars>>
    /\ UNCHANGED notAudio

AudioNext ==
    \/ NativeStart \/ NativeSpeak \/ NativeCheck \/ NativeHandleErrorRaise
    \/ NativeExcept \/ NativeReraise \/ NativeFinally
    \/ CleanupNothing \/ CleanupUnlink \/ CleanupGiveUp
    \/ OttsSign \/ OttsPost \/ OttsWrite \/ OttsExcept \/ OttsRaise

(***************************************************************************)
(* Claims about get_audio.                                                 *)
(***************************************************************************)
CallOver == apc = "over"

\* C1: for both backends and every way a call can fail (a Canceled vendor
\* result, an exception from the SDK, an HTTP or transport error, an error
\* while the response is written, a deletion meeting PermissionError), the
\* call raises and its output file does not exist once it is over.
C1_FailureLeavesNoFile ==
    (CallOver /\ failure # "") =>
        /\ outcome.kind = "raise"
        /\ file = "absent"

\* C2: whenever get_audio returns a path, the file exists and is fully
\* written, the vendor (a completed synthesis) or the relay (a 2xx answer)
\* signalled success, and the adapter has deleted nothing and deletes
\* nothing afterwards.
C2_ReturnedFileIsWhole ==
    (CallOver /\ outcome.kind = "return") =>
        /\ file = "full"
        /\ impl = "NativeAzureTTS" =>
              vresult.reason = "SynthesizingAudioCompleted"
        /\ impl = "OTTSClient" => (200 <= http_status /\ http_status < 300)
        /\ unlinkLog = <<>>
        /\ ~ENABLED AudioNext

\* C5: in OTTSClient.get_audio every response whose status is not 200 makes
\* the call raise RuntimeError, leaves no file and returns no path; only a
\* 200 response has its body written and the path returned.
C5_Non200Fails ==
    (CallOver /\ impl = "OTTSClient" /\ http_status # 0) =>
        /\ http_status # 200 =>
              /\ outcome.kind = "raise"
              /\ outcome.exc.class = "RuntimeError"
              /\ file = "absent"
        /\ outcome.kind = "return" => (http_status = 200 /\ file = "full")

Carries(msg, part) == \E i \in DOMAIN msg : msg[i] = part

\* C8: for the native backend every vendor result that is not a successful
\* synthesis makes get_audio raise RuntimeError; for a cancellation the
\* message carries the cancellation reason, and the error detail exactly
\* when that reason is Error; a completed result whose file is missing is
\* reported with a message of its own; this for every result reason.
C8_NativeFailureReport ==
    ( /\ CallOver
      /\ impl = "NativeAzureTTS"
      /\ vresult.reason # ""
      /\ ~(vresult.reason = "SynthesizingAudioCompleted" /\ file = "full") ) =>
        /\ outcome.kind = "raise"
        /\ outcome.exc.class = "RuntimeError"
        /\ outcome.exc.msg # <<>>
        /\ vresult.reason = "Canceled" =>
              /\ Carries(outcome.exc.msg, vresult.cancel_reason)
              /\ Carries(outcome.exc.msg, vresult.error_details)
                   <=> vresult.cancel_reason = "Error"
        /\ vresult.reason # "Canceled" =>
              ~Carries(outcome.exc.msg, "synthesis canceled: ")

\* C10: a failing get_audio call tries to delete its file at most 3 times,
\* again only after PermissionError, and not after a deletion that succeeded
\* or met another error; _cleanup ends and lets no exception out, so that
\* what get_audio raises is the synthesis failure, never a deletion failure.
C10_BoundedCleanup ==
    /\ Len(unlinkLog) <= 3
    /\ \A i \in 1..(Len(unlinkLog) - 1) : unlinkLog[i] = "PermissionError"
    /\ loopI <= 3
    /\ (CallOver /\ outcome.kind = "raise") =>
          /\ outcome.exc.class # "PermissionError"
          /\ outcome.exc = primary \/ outcome.exc = RelayUnavailable

(***************************************************************************)
(* The specifications. Each starts the part of the program it runs and     *)
(* leaves the variables of the other parts at rest.                        *)
(***************************************************************************)
ConfigAtRest ==
    /\ cfgKey = Missing
    /\ cfgRegion = Missing
    /\ cfgOut = NoOutcome

SsmlAtRest ==
    /\ ssmlConfig = [ azure_tts_voice |-> Missing, azure_tts_style |-> Missing,
                      azure_tts_role |-> Missing, azure_tts_rate |-> Missing,
                      azure_tts_volume |-> Missing ]
    /\ ssmlText = <<>>
    /\ ssmlDoc = <<>>

SignAtRest ==
    /\ otts = OTTSClient_fields(<<>>, <<>>, <<>>)
    /\ clock = 0
    /\ signSync = NoSync
    /\ signed_url = <<>>

SyncAtRest ==
    /\ syncPc = [c \in Calls |-> "idle"]
    /\ syncResp = [c \in Calls |-> NoAnswer]
    /\ syncLocal = [c \in Calls |-> 0]
    /\ syncRet = [c \in Calls |-> 0]
    /\ lastStored = 0

AudioAtRest ==
    /\ impl = ""
    /\ platform = ""
    /\ apc = ""
    /\ file = "absent"
    /\ synthesizer = "None"
    /\ vresult = NoResult
    /\ http_status = 0
    /\ raised = NoExc
    /\ primary = NoExc
    /\ pending = NoPending
    /\ outcome = NoPending
    /\ loopI = 0
    /\ cleanupFrom = ""
    /\ unlinkLog = <<>>
    /\ failure = ""

InitConfig ==
    ConfigInit /\ SsmlAtRest /\ SignAtRest /\ SyncAtRest /\ AudioAtRest

InitSsml ==
    SsmlInit /\ ConfigAtRest /\ SignAtRest /\ SyncAtRest /\ AudioAtRest

InitSign ==
    SignInit /\ ConfigAtRest /\ SsmlAtRest /\ SyncAtRest /\ AudioAtRest

InitSync == SyncInit /\ ConfigAtRest /\ SsmlAtRest /\ AudioAtRest

InitAudio == AudioInit /\ ConfigAtRest /\ SsmlAtRest /\ SyncAtRest

SpecConfig == InitConfig /\ [][ConfigNext]_vars

SpecSsml == InitSsml /\ [][SsmlNext]_vars

SpecSign == InitSign /\ [][SignNext]_vars

SpecSync == InitSync /\ [][SyncNext]_vars

SpecAudio == InitAudio /\ [][AudioNext]_vars

====
